---- MODULE Spec2Model ----
(***************************************************************************)
(* Model of the golf practice tracker's derivations:                       *)
(*   - utils/data_manager.py: current_streak, longest_streak               *)
(*   - pages/2_Short_Game_Testing.py: score_to_handicap over the lookup    *)
(*     tables that utils/import_excel.py writes; the page's preview and    *)
(*     history of a test row                                               *)
(*   - pages/6_Putting_Testing.py: the Swedish drill's handicap and level  *)
(*   - pages/5_Wedge_Ladder.py: calculate_grade                            *)
(*   - the pages' moving average (pandas rolling mean)                     *)
(*   - utils/data_manager.py: load_csv, save_csv, append_csv_row,          *)
(*     delete_csv_row, all_practice_dates, practice_session_counts and the *)
(*     dashboard metrics of app.py                                         *)
(* Calendar dates are modelled by their ordinals (date.toordinal()), so    *)
(* "one day earlier" is d - 1 and the difference of two dates is d2 - d1.  *)
(* Python's None is the empty tuple <<>>; a present value v is <<v>>.      *)
(***************************************************************************)
EXTENDS Integers, Sequences, FiniteSets

VARIABLES
    dates,      \* the date list handed to current_streak / longest_streak
    today,      \* date.today(), as an ordinal
    prev,       \* what the dashboard showed on the render before the last
    shown,      \* what the dashboard showed on the last render
    lookup,     \* testing_lookup.json: shot type -> list of entries
    hcap,       \* the last score_to_handicap call: <<[shot, score, result]>>
    latest,     \* the stored test row the Short Game Testing page renders
    preview,    \* the page's latest-test preview of that row
    entry,      \* the page's history entry of that row
    total_score,    \* Swedish drill: the total test score, in tenths
    putting_hcp,    \* Swedish drill: swedish_putting_handicap(total_score)
    level,          \* Swedish drill: swedish_level_label(total_score)
    targets,    \* calculate_grade: the target distances
    actuals,    \* calculate_grade: the actual distances
    graded,     \* calculate_grade: <<[grade, stats]>> once it has returned
    series,     \* the column a page charts; a missing value (NaN) is None
    window,     \* the moving-average window
    moving_avg, \* <<the rolling mean of series>> once it is computed
    store,      \* Google Sheets: worksheet name -> the worksheet
    last_write, \* the last operation that saved a worksheet, and the dates
                \* it took out of all_practice_dates()
    metrics,    \* <<the dashboard's key metrics>> once app.py has run
    session_state,  \* the wedge-ladder page's st.session_state
    screen,     \* what the last run of the wedge-ladder page rendered
    wl_rows,    \* the rows the page has saved to the wedge_ladder worksheet
    calls       \* two append_csv_row calls in flight: position, loaded df

streakVars == <<dates, today, prev, shown>>
lookupVars == <<lookup, hcap>>
testingVars == <<latest, preview, entry>>
puttingVars == <<total_score, putting_hcp, level>>
gradeVars == <<targets, actuals, graded>>
rollVars == <<series, window, moving_avg>>
storeVars == <<store, last_write, metrics>>
pageVars == <<session_state, screen, wl_rows>>
pureVars == <<puttingVars, gradeVars, rollVars>>
otherThanStreak ==
    <<lookupVars, testingVars, pureVars, storeVars, pageVars, calls>>
otherThanLookup ==
    <<streakVars, testingVars, pureVars, storeVars, pageVars, calls>>
otherThanTesting == <<streakVars, pureVars, storeVars, pageVars, calls>>
otherThanPutting ==
    <<streakVars, lookupVars, testingVars, gradeVars, rollVars, storeVars,
      pageVars, calls>>
otherThanGrade ==
    <<streakVars, lookupVars, testingVars, puttingVars, rollVars, storeVars,
      pageVars, calls>>
otherThanRoll ==
    <<streakVars, lookupVars, testingVars, puttingVars, gradeVars, storeVars,
      pageVars, calls>>
otherThanStore ==
    <<streakVars, lookupVars, testingVars, pureVars, pageVars, calls>>
otherThanPage ==
    <<streakVars, lookupVars, testingVars, pureVars, storeVars, calls>>
otherThanCalls ==
    <<streakVars, lookupVars, testingVars, pureVars, last_write, metrics,
      pageVars>>

vars ==
    <<streakVars, lookupVars, testingVars, puttingVars, gradeVars, rollVars,
      storeVars, pageVars, calls>>

None == <<>>
Some(v) == <<v>>

\* the variables of a component that a specification does not exercise
IdleStreak == dates = <<>> /\ today = 0 /\ prev = None /\ shown = None
IdleLookup == lookup = <<>> /\ hcap = None
IdleTesting == latest = None /\ preview = None /\ entry = None
IdlePutting == total_score = 0 /\ putting_hcp = None /\ level = None
IdleGrade == targets = <<>> /\ actuals = <<>> /\ graded = None
IdleRoll == series = <<>> /\ window = 0 /\ moving_avg = None
IdleStore == store = <<>> /\ last_write = None /\ metrics = None
IdlePage == session_state = <<>> /\ screen = None /\ wl_rows = <<>>
IdleCalls == calls = <<>>

\* ------------------------------------------------------------------------
\* Bounds of the model
\* ------------------------------------------------------------------------
MaxDay == 3
MaxLen == 4
NumCols == 3
MaxShots == 3
MaxSeries == 4
MaxWindow == 3
MaxRows == 2

Days == 0..MaxDay
Todays == 0..(MaxDay + 1)
DateLists == UNION {[1..n -> Days] : n \in 0..MaxLen}

\* ------------------------------------------------------------------------
\* utils/data_manager.py: streaks
\* ------------------------------------------------------------------------

\* lines 206-209: the day the backward walk starts from
StartCheckSwapped(ds, t) ==
    IF t >= ds[Len(ds)] THEN t ELSE ds[Len(ds)]

StartCheckToday(ds, t) == t

StartCheck(ds, t) ==
    IF ds[Len(ds)] < t THEN ds[Len(ds)] ELSE t

\* lines 210-217: for d in reversed(dates), with i the position of d
RECURSIVE StreakLoopStuck(_, _, _, _)
StreakLoopStuck(ds, i, check, streak) ==
    IF i = 0 THEN streak
    ELSE IF ds[i] = check THEN StreakLoopStuck(ds, i - 1, check, streak + 1)
    ELSE IF ds[i] < check THEN streak
    ELSE StreakLoopStuck(ds, i - 1, check, streak)

RECURSIVE StreakLoop(_, _, _, _)
StreakLoop(ds, i, check, streak) ==
    IF i = 0 THEN streak
    ELSE IF ds[i] = check THEN StreakLoop(ds, i - 1, check - 1, streak + 1)
    ELSE IF ds[i] < check THEN streak
    ELSE StreakLoop(ds, i - 1, check, streak)

current_streak(ds, t) ==
    IF ds = <<>> THEN 0
    ELSE StreakLoop(ds, Len(ds), StartCheck(ds, t), 0)

Max2(a, b) == IF a >= b THEN a ELSE b

\* lines 228-234: for i in range(1, len(dates)), 1-based here
RECURSIVE LongestLoopAnyGap(_, _, _, _)
LongestLoopAnyGap(ds, i, run, best) ==
    IF i > Len(ds) THEN best
    ELSE IF ds[i] - ds[i - 1] >= 1
         THEN LongestLoopAnyGap(ds, i + 1, run + 1, Max2(best, run + 1))
         ELSE LongestLoopAnyGap(ds, i + 1, 1, best)

RECURSIVE LongestLoopLastRun(_, _, _, _)
LongestLoopLastRun(ds, i, run, best) ==
    IF i > Len(ds) THEN run
    ELSE IF ds[i] - ds[i - 1] = 1
         THEN LongestLoopLastRun(ds, i + 1, run + 1, Max2(best, run + 1))
         ELSE LongestLoopLastRun(ds, i + 1, 1, best)

RECURSIVE LongestLoop(_, _, _, _)
LongestLoop(ds, i, run, best) ==
    IF i > Len(ds) THEN best
    ELSE IF ds[i] - ds[i - 1] = 1
         THEN LongestLoop(ds, i + 1, run + 1, Max2(best, run + 1))
         ELSE LongestLoop(ds, i + 1, 1, best)

longest_streak_noguard(ds) == LongestLoop(ds, 2, 1, 1)

longest_streak(ds) ==
    IF ds = <<>> THEN 0
    ELSE LongestLoop(ds, 2, 1, 1)

\* app.py lines 58-59: one render of the dashboard shows both streaks
Dashboard ==
    /\ prev' = shown
    /\ shown' = Some([today |-> today,
                      current |-> current_streak(dates, today),
                      longest |-> longest_streak(dates)])
    /\ UNCHANGED <<dates, today, otherThanStreak>>

\* the calendar moves on between two renders
Tick ==
    /\ today < MaxDay + 1
    /\ today' = today + 1
    /\ UNCHANGED <<dates, prev, shown, otherThanStreak>>

InitStreak ==
    /\ dates \in DateLists
    /\ today \in Todays
    /\ prev = None
    /\ shown = None
    /\ IdleLookup
    /\ IdleTesting
    /\ IdlePutting
    /\ IdleGrade
    /\ IdleRoll
    /\ IdleStore
    /\ IdlePage
    /\ IdleCalls

NextStreak == Dashboard \/ Tick

SpecStreak == InitStreak /\ [][NextStreak]_vars

\* ------------------------------------------------------------------------
\* utils/import_excel.py and pages/2_Short_Game_Testing.py: handicap lookup
\* ------------------------------------------------------------------------

\* pages/2_Short_Game_Testing.py lines 31-40. The code treats every shot
\* type alike, so two of the eight names are modelled.
SHOT_TYPES == {"50 Yards F", "Flop"}

\* handicaps are floats in the code; here they are counted in tenths
Handicaps == {10, 50}

\* a cell of the Testing sheet: empty, or a handicap
Cells == {None} \cup {Some(h) : h \in Handicaps}

SheetRows == [1..NumCols -> Cells]

\* import_excel.py lines 151-156: row 1 holds the index numbers 1..n
indices == [i \in 1..NumCols |-> i]

\* import_excel.py lines 162-167: one entry per non-empty cell, in column
\* order, with the column's index number as its score
RECURSIVE ImportRow(_, _)
ImportRow(row, n) ==
    IF n = 0 THEN <<>>
    ELSE IF row[n] # None
         THEN Append(ImportRow(row, n - 1),
                     [score |-> indices[n], handicap |-> row[n][1]])
         ELSE ImportRow(row, n - 1)

\* line 58: lookup.get(shot_type, [])
TableOf(shot_type) ==
    IF shot_type \in DOMAIN lookup THEN lookup[shot_type] ELSE <<>>

\* lines 59-61: the first entry whose score equals the raw score
RECURSIVE ExactMatchFrom(_, _, _)
ExactMatchFrom(table, score, i) ==
    IF i > Len(table) THEN None
    ELSE IF table[i].score = score THEN Some(table[i].handicap)
    ELSE ExactMatchFrom(table, score, i + 1)

ExactMatchFirstOnly(table, score) ==
    IF table # <<>> /\ table[1].score = score
    THEN Some(table[1].handicap) ELSE None

ExactMatch(table, score) == ExactMatchFrom(table, score, 1)

\* line 65-66, 68: min(scores), max(scores)
MinScore(table) ==
    CHOOSE m \in {table[i].score : i \in 1..Len(table)} :
        \A i \in 1..Len(table) : m <= table[i].score

MaxScore(table) ==
    CHOOSE m \in {table[i].score : i \in 1..Len(table)} :
        \A i \in 1..Len(table) : m >= table[i].score

ClampSwapped(table, score) ==
    IF table = <<>> THEN None
    ELSE IF score < MinScore(table) THEN Some(table[Len(table)].handicap)
    ELSE IF score > MaxScore(table) THEN Some(table[1].handicap)
    ELSE None

ClampNearestBelow(table, score) ==
    IF table = <<>> THEN None
    ELSE IF score < MinScore(table) THEN Some(table[1].handicap)
    ELSE IF score > MaxScore(table) THEN Some(table[Len(table)].handicap)
    ELSE Some(table[1].handicap)

\* lines 63-70: no exact match
Clamp(table, score) ==
    IF table = <<>> THEN None
    ELSE IF score < MinScore(table) THEN Some(table[1].handicap)
    ELSE IF score > MaxScore(table) THEN Some(table[Len(table)].handicap)
    ELSE None

\* lines 55-70
score_to_handicap(shot_type, score) ==
    LET table == TableOf(shot_type)
        exact == ExactMatch(table, score)
    IN  IF exact # None THEN exact ELSE Clamp(table, score)

\* the raw scores a stored test row can hold
RawScores == (0 - 1)..(NumCols + 2)

\* lines 129-137 and 196-205: the page looks up one shot type's raw score
ScoreToHandicap ==
    /\ \E s \in SHOT_TYPES, score \in RawScores :
          hcap' = Some([shot |-> s, score |-> score,
                        result |-> score_to_handicap(s, score)])
    /\ UNCHANGED <<lookup, otherThanLookup>>

\* lines 25-28: the page stops when the lookup is empty; import_excel.py
\* lines 158-167 write one table per named row of the sheet
InitLookup ==
    /\ \E D \in (SUBSET SHOT_TYPES) \ {{}} :
          \E sheet \in [D -> SheetRows] :
              lookup = [s \in D |-> ImportRow(sheet[s], NumCols)]
    /\ hcap = None
    /\ IdleStreak
    /\ IdleTesting
    /\ IdlePutting
    /\ IdleGrade
    /\ IdleRoll
    /\ IdleStore
    /\ IdlePage
    /\ IdleCalls

NextLookup == ScoreToHandicap

SpecLookup == InitLookup /\ [][NextLookup]_vars

\* ------------------------------------------------------------------------
\* pages/2_Short_Game_Testing.py: latest-test preview and history entry
\* ------------------------------------------------------------------------

\* lines 31-40, in display order (zip(SHOT_TYPES, SHOT_CSV_COLS))
SHOT_LIST == <<"50 Yards F", "Flop">>

\* what a cell of a stored test row can hold: NaN (empty), the texts "" or
\* "na", a text that float() rejects, or a number
RawCells ==
    {[k |-> "nan", v |-> 0], [k |-> "na", v |-> 0], [k |-> "bad", v |-> 0]}
        \cup {[k |-> "num", v |-> n] : n \in RawScores}

TestRows == [SHOT_TYPES -> RawCells]

\* lines 131 and 202: pd.notna(raw) and raw != "" and raw != "na"
IsFilled(raw) == raw.k \notin {"nan", "na"}

\* lines 132-135 and 203-204: int(float(raw)), None when float() raises
RawInt(raw) == IF raw.k = "num" THEN Some(raw.v) ELSE None

\* lines 129-149: acc is [total, valid_count, given]
RECURSIVE PreviewLoopNoneAsZero(_, _, _)
PreviewLoopNoneAsZero(row, i, acc) ==
    IF i > Len(SHOT_LIST) THEN acc
    ELSE LET shot == SHOT_LIST[i]
             raw_int == RawInt(row[shot])
         IN  IF IsFilled(row[shot]) /\ raw_int # None
                  /\ raw_int[1] # 0 /\ raw_int[1] > 0
             THEN LET h == score_to_handicap(shot, raw_int[1])
                  IN  PreviewLoopNoneAsZero(row, i + 1,
                          [total |-> acc.total + (IF h # None THEN h[1] ELSE 0),
                           valid_count |-> acc.valid_count + 1,
                           given |-> IF h # None THEN acc.given \cup {shot}
                                     ELSE acc.given])
             ELSE PreviewLoopNoneAsZero(row, i + 1, acc)

RECURSIVE PreviewLoop(_, _, _)
PreviewLoop(row, i, acc) ==
    IF i > Len(SHOT_LIST) THEN acc
    ELSE LET shot == SHOT_LIST[i]
             raw_int == RawInt(row[shot])
         IN  IF IsFilled(row[shot]) /\ raw_int # None
                  /\ raw_int[1] # 0 /\ raw_int[1] > 0
             THEN LET h == score_to_handicap(shot, raw_int[1])
                  IN  IF h # None
                      THEN PreviewLoop(row, i + 1,
                               [total |-> acc.total + h[1],
                                valid_count |-> acc.valid_count + 1,
                                given |-> acc.given \cup {shot}])
                      ELSE PreviewLoop(row, i + 1, acc)
             ELSE PreviewLoop(row, i + 1, acc)

\* lines 125-155: the average is the fraction <<total, valid_count>>, and
\* None where the page shows a dash
Preview(row) ==
    LET acc == PreviewLoop(row, 1, [total |-> 0, valid_count |-> 0, given |-> {}])
    IN  [total |-> acc.total, valid_count |-> acc.valid_count,
         given |-> acc.given,
         avg |-> IF acc.valid_count # 0
                 THEN Some(<<acc.total, acc.valid_count>>) ELSE None]

\* lines 199-210: acc is [sum, len, given], sum and len those of hcaps
RECURSIVE HistoryLoop(_, _, _)
HistoryLoop(row, i, acc) ==
    IF i > Len(SHOT_LIST) THEN acc
    ELSE LET shot == SHOT_LIST[i]
             raw_int == RawInt(row[shot])
         IN  IF IsFilled(row[shot]) /\ raw_int # None
             THEN LET h == score_to_handicap(shot, raw_int[1])
                  IN  IF h # None
                      THEN HistoryLoop(row, i + 1,
                               [sum |-> acc.sum + h[1], len |-> acc.len + 1,
                                given |-> acc.given \cup {shot}])
                      ELSE HistoryLoop(row, i + 1, acc)
             ELSE HistoryLoop(row, i + 1, acc)

\* lines 197-213: None when the row adds no entry to the history
HistoryEntry(row) ==
    LET acc == HistoryLoop(row, 1, [sum |-> 0, len |-> 0, given |-> {}])
    IN  IF acc.len # 0
        THEN Some([given |-> acc.given, avg_handicap |-> <<acc.sum, acc.len>>])
        ELSE None

\* one run of the page over the stored test row: lines 120-155 and 194-213
RenderTesting ==
    /\ preview' = Some(Preview(latest[1]))
    /\ entry' = Some(HistoryEntry(latest[1]))
    /\ UNCHANGED <<lookupVars, latest, otherThanTesting>>

\* the handicap that fills the non-empty cells of a shot type's sheet row
\* in the states the page is explored from: one value per shot type, so
\* that a sum of handicaps tells which shot types it was taken over
RowHandicap == [s \in SHOT_TYPES |-> IF s = SHOT_LIST[1] THEN 10 ELSE 50]

InitTesting ==
    /\ \E D \in (SUBSET SHOT_TYPES) \ {{}} :
          \E sheet \in [D -> SheetRows] :
              /\ \A s \in D : \A c \in 1..NumCols :
                    sheet[s][c] \in {None, Some(RowHandicap[s])}
              /\ lookup = [s \in D |-> ImportRow(sheet[s], NumCols)]
    /\ hcap = None
    /\ latest \in {Some(row) : row \in TestRows}
    /\ preview = None
    /\ entry = None
    /\ IdleStreak
    /\ IdlePutting
    /\ IdleGrade
    /\ IdleRoll
    /\ IdleStore
    /\ IdlePage
    /\ IdleCalls

NextTesting == RenderTesting

SpecTesting == InitTesting /\ [][NextTesting]_vars

\* ------------------------------------------------------------------------
\* pages/6_Putting_Testing.py: Swedish drill handicap and level
\* Scores are floats with one decimal in the code; here they are counted in
\* tenths, and an interpolated handicap is the exact fraction [num, den].
\* ------------------------------------------------------------------------

\* line 38: 18 putts
NumPutts == 18

\* lines 55-67: the least and the greatest score of one putt
MinPuttScore == 0 - 2
MaxPuttScore == 3

\* lines 40-48, scores in tenths
SWEDISH_BENCHMARKS ==
    << <<0 - 55, "Tour Player">>, <<0 - 29, "European Tour">>,
       <<0 - 15, "Challenge Tour">>, <<2, "+2 HCP">>, <<20, "Scratch">>,
       <<63, "5 HCP">>, <<107, "10 HCP">> >>

\* lines 51-52, scores in tenths
SW_SCORES == <<2, 20, 63, 107>>
SW_HCAPS == <<0 - 2, 0, 5, 10>>

\* the totals a test can give (line 222), and every tenth between them
TotalScores == (10 * NumPutts * MinPuttScore)..(10 * NumPutts * MaxPuttScore)

Whole(v) == [num |-> v, den |-> 1]

\* np.interp(x, xp, fp): the segment j with xp[j] <= x < xp[j+1]
Segment(x, xp) == CHOOSE j \in 1..(Len(xp) - 1) : xp[j] <= x /\ x < xp[j + 1]

np_interp_extrapolate(x, xp, fp) ==
    LET j == IF x < xp[1] THEN 1
             ELSE IF x >= xp[Len(xp)] THEN Len(xp) - 1
             ELSE Segment(x, xp)
    IN  [num |-> fp[j] * (xp[j + 1] - xp[j]) + (x - xp[j]) * (fp[j + 1] - fp[j]),
         den |-> xp[j + 1] - xp[j]]

np_interp(x, xp, fp) ==
    IF x < xp[1] THEN Whole(fp[1])
    ELSE IF x >= xp[Len(xp)] THEN Whole(fp[Len(fp)])
    ELSE LET j == Segment(x, xp)
         IN  [num |-> fp[j] * (xp[j + 1] - xp[j])
                        + (x - xp[j]) * (fp[j + 1] - fp[j]),
              den |-> xp[j + 1] - xp[j]]

\* lines 75-77
swedish_putting_handicap(total) == np_interp(total, SW_SCORES, SW_HCAPS)

Abs(x) == IF x < 0 THEN 0 - x ELSE x

\* min(SWEDISH_BENCHMARKS, key=...): the first item with the least key
RECURSIVE MinByDistanceLast(_, _, _)
MinByDistanceLast(total, i, best) ==
    IF i > Len(SWEDISH_BENCHMARKS) THEN best
    ELSE IF Abs(SWEDISH_BENCHMARKS[i][1] - total)
              <= Abs(SWEDISH_BENCHMARKS[best][1] - total)
         THEN MinByDistanceLast(total, i + 1, i)
         ELSE MinByDistanceLast(total, i + 1, best)

RECURSIVE MinByDistance(_, _, _)
MinByDistance(total, i, best) ==
    IF i > Len(SWEDISH_BENCHMARKS) THEN best
    ELSE IF Abs(SWEDISH_BENCHMARKS[i][1] - total)
              < Abs(SWEDISH_BENCHMARKS[best][1] - total)
         THEN MinByDistance(total, i + 1, i)
         ELSE MinByDistance(total, i + 1, best)

\* lines 80-83
swedish_level_label(total) ==
    SWEDISH_BENCHMARKS[MinByDistance(total, 2, 1)][2]

\* line 223
SwedishPuttingHandicap ==
    /\ putting_hcp' = Some(swedish_putting_handicap(total_score))
    /\ UNCHANGED <<total_score, level, otherThanPutting>>

\* line 224
SwedishLevelLabel ==
    /\ level' = Some(swedish_level_label(total_score))
    /\ UNCHANGED <<total_score, putting_hcp, otherThanPutting>>

InitPutting ==
    /\ total_score \in TotalScores
    /\ putting_hcp = None
    /\ level = None
    /\ IdleStreak
    /\ IdleLookup
    /\ IdleTesting
    /\ IdleGrade
    /\ IdleRoll
    /\ IdleStore
    /\ IdlePage
    /\ IdleCalls

NextPutting == SwedishPuttingHandicap \/ SwedishLevelLabel

SpecPutting == InitPutting /\ [][NextPutting]_vars

\* ------------------------------------------------------------------------
\* pages/5_Wedge_Ladder.py: calculate_grade
\* A percentage is counted in tenths of a percent, so round(pct, 1) is a
\* whole number of tenths.
\* ------------------------------------------------------------------------

\* line 43: the tolerances, in yards
THRESHOLDS == {5, 4, 3, 2}

\* the distances of the model: two targets, and actual distances that are
\* 0, 2, 3, 4, 5 and 6 yards off the first one
TargetValues == {100, 106}
ActualValues == {98, 100, 103, 104, 105, 106}

TargetLists == UNION {[1..n -> TargetValues] : n \in 0..MaxShots}
ActualLists == UNION {[1..n -> ActualValues] : n \in 0..MaxShots}

\* a ladder long enough for a pass rate to lie within 0.05 of 70 without
\* reaching it (142 of 203), and its shots: the first w on target, the rest
\* 6 yards long
LongLadder == 203

LongTargets == [i \in 1..LongLadder |-> 100]

LongActuals(w) == [i \in 1..LongLadder |-> IF i <= w THEN 100 ELSE 106]

Min2(a, b) == IF a <= b THEN a ELSE b

\* line 41: zip stops at the shorter of the two lists
Diffs(ts, as) == [i \in 1..Min2(Len(ts), Len(as)) |-> Abs(ts[i] - as[i])]

\* line 44
WithinStrict(diffs, threshold) ==
    Cardinality({i \in 1..Len(diffs) : diffs[i] < threshold})

Within(diffs, threshold) ==
    Cardinality({i \in 1..Len(diffs) : diffs[i] <= threshold})

\* lines 45-46: round(within / n * 100, 1) in tenths of a percent, a tie
\* going to the even tenth
Round1Pct(within, n) ==
    LET q == (within * 1000) \div n
        r == (within * 1000) % n
    IN  IF 2 * r < n THEN q
        ELSE IF 2 * r > n THEN q + 1
        ELSE IF q % 2 = 0 THEN q ELSE q + 1

\* lines 42-46
Stats(diffs, n) ==
    [threshold \in THRESHOLDS |->
        [within |-> Within(diffs, threshold), total |-> n,
         pct |-> Round1Pct(Within(diffs, threshold), n)]]

\* lines 48-58
GradeOfStrict(stats) ==
    IF stats[2].pct > 700 THEN 5
    ELSE IF stats[3].pct > 700 THEN 4
    ELSE IF stats[4].pct > 700 THEN 3
    ELSE IF stats[5].pct > 700 THEN 2
    ELSE IF stats[5].pct > 500 THEN 1
    ELSE 0

GradeOfElif(stats) ==
    IF stats[5].pct >= 500 THEN 1
    ELSE IF stats[5].pct >= 700 THEN 2
    ELSE IF stats[4].pct >= 700 THEN 3
    ELSE IF stats[3].pct >= 700 THEN 4
    ELSE IF stats[2].pct >= 700 THEN 5
    ELSE 0

GradeOf(stats) ==
    LET g1 == IF stats[5].pct >= 500 THEN 1 ELSE 0
        g2 == IF stats[5].pct >= 700 THEN 2 ELSE g1
        g3 == IF stats[4].pct >= 700 THEN 3 ELSE g2
        g4 == IF stats[3].pct >= 700 THEN 4 ELSE g3
        g5 == IF stats[2].pct >= 700 THEN 5 ELSE g4
    IN  g5

\* lines 35-60: stats is the empty function when there are no targets
calculate_grade(ts, as) ==
    IF Len(ts) = 0 THEN [grade |-> 0, stats |-> <<>>]
    ELSE LET stats == Stats(Diffs(ts, as), Len(ts))
         IN  [grade |-> GradeOf(stats), stats |-> stats]

\* line 159
CalculateGrade ==
    /\ graded' = Some(calculate_grade(targets, actuals))
    /\ UNCHANGED <<targets, actuals, otherThanGrade>>

InitGrade ==
    /\ targets \in TargetLists
    /\ actuals \in ActualLists
    /\ graded = None
    /\ IdleStreak
    /\ IdleLookup
    /\ IdleTesting
    /\ IdlePutting
    /\ IdleRoll
    /\ IdleStore
    /\ IdlePage
    /\ IdleCalls

NextGrade == CalculateGrade

SpecGrade == InitGrade /\ [][NextGrade]_vars

\* calculate_grade on the long ladder
InitLongLadder ==
    /\ targets = LongTargets
    /\ actuals \in {LongActuals(w) : w \in 0..LongLadder}
    /\ graded = None
    /\ IdleStreak
    /\ IdleLookup
    /\ IdleTesting
    /\ IdlePutting
    /\ IdleRoll
    /\ IdleStore
    /\ IdlePage
    /\ IdleCalls

SpecLongLadder == InitLongLadder /\ [][NextGrade]_vars

\* ------------------------------------------------------------------------
\* The moving average of the pages:
\*   series.rolling(window=w, min_periods=1).mean()
\* (2_Short_Game_Testing.py line 270, 4_Three_Hole_Loop.py lines 187-189 and
\* 305-308). A mean is the exact fraction [sum, n] of n observations.
\* ------------------------------------------------------------------------

\* the charted values; a column holds NaN where a session has no value
\* (4_Three_Hole_Loop.py lines 298-302, 2_Short_Game_Testing.py line 207)
SeriesValues == {None} \cup {Some(v) : v \in 1..4}

SeriesLists == UNION {[1..n -> SeriesValues] : n \in 0..MaxSeries}

\* the sliders start at 2 (2_Short_Game_Testing.py lines 237-246)
Windows == 2..MaxWindow

\* min_periods=1
MIN_PERIODS == 1

Obs(x) == IF x = None THEN 0 ELSE 1
Val(x) == IF x = None THEN 0 ELSE x[1]

\* one pass over the series with a running sum and a running count of the
\* observations in the window: x[i] enters, x[i - w] leaves
RECURSIVE RollingMeanExpanding(_, _, _, _, _)
RollingMeanExpanding(xs, w, i, sum, nobs) ==
    IF i > Len(xs) THEN <<>>
    ELSE LET sum1 == sum + Val(xs[i])
             nobs1 == nobs + Obs(xs[i])
         IN  <<IF nobs1 >= MIN_PERIODS
                 THEN Some([sum |-> sum1, n |-> nobs1]) ELSE None>>
                 \o RollingMeanExpanding(xs, w, i + 1, sum1, nobs1)

RECURSIVE RollingMeanFrom(_, _, _, _, _)
RollingMeanFrom(xs, w, i, sum, nobs) ==
    IF i > Len(xs) THEN <<>>
    ELSE LET out == IF i > w THEN xs[i - w] ELSE None
             sum1 == sum + Val(xs[i]) - Val(out)
             nobs1 == nobs + Obs(xs[i]) - Obs(out)
         IN  <<IF nobs1 >= MIN_PERIODS
                 THEN Some([sum |-> sum1, n |-> nobs1]) ELSE None>>
                 \o RollingMeanFrom(xs, w, i + 1, sum1, nobs1)

rolling_mean(xs, w) == RollingMeanFrom(xs, w, 1, 0, 0)

\* 2_Short_Game_Testing.py line 270
MovingAvg ==
    /\ moving_avg' = Some(rolling_mean(series, window))
    /\ UNCHANGED <<series, window, otherThanRoll>>

InitRoll ==
    /\ series \in SeriesLists
    /\ window \in Windows
    /\ moving_avg = None
    /\ IdleStreak
    /\ IdleLookup
    /\ IdleTesting
    /\ IdlePutting
    /\ IdleGrade
    /\ IdleStore
    /\ IdlePage
    /\ IdleCalls

NextRoll == MovingAvg

SpecRoll == InitRoll /\ [][NextRoll]_vars

\* ------------------------------------------------------------------------
\* The store: the Google Sheets worksheets behind utils/data_manager.py.
\* A worksheet is missing (conn.read raises), unread (conn.read returns
\* None) or a table of rows. A row is EmptyRow (every cell NaN) or holds its
\* date cell: the day, and whether Sheets hands the cell back with a time of
\* day ("2026-02-01 0:00:00"). A DataFrame is the sequence of its rows, each
\* with its index label.
\* ------------------------------------------------------------------------
PRACTICE_SHEETS ==
    {"ball_striking", "putting", "short_game", "testing", "three_hole_loop",
     "wedge_ladder"}

EmptyRow == None
DataRow(d, t) == Some([day |-> d, time |-> t])

Missing == [kind |-> "missing", rows |-> <<>>]
Unread == [kind |-> "none", rows |-> <<>>]
Table(rows) == [kind |-> "table", rows |-> rows]

\* pd.DataFrame()
EmptyFrame == <<>>

\* conn.read: the rows are labelled 0, 1, 2, ...
Frame(rows) == [i \in 1..Len(rows) |-> [label |-> i - 1, row |-> rows[i]]]

\* df.dropna(how="all") keeps the labels of the rows it keeps
RECURSIVE dropna(_)
dropna(df) ==
    IF df = <<>> THEN <<>>
    ELSE IF df[1].row = EmptyRow THEN dropna(Tail(df))
         ELSE <<df[1]>> \o dropna(Tail(df))

\* astype(str).str.split(" ").str[0], then pd.to_datetime
CleanDate(cell) == cell.day

\* the outcome of load_csv: whether it raised, and the DataFrame it returned
load_csv_nocatch(name) ==
    IF store[name].kind = "missing"
      THEN [raised |-> TRUE, df |-> EmptyFrame]
    ELSE IF store[name].kind = "none"
      THEN [raised |-> FALSE, df |-> EmptyFrame]
    ELSE LET kept == dropna(Frame(store[name].rows))
         IN  [raised |-> FALSE,
              df |-> [i \in 1..Len(kept) |->
                        [label |-> kept[i].label,
                         date |-> CleanDate(kept[i].row[1])]]]

load_csv(name) ==
    IF store[name].kind = "missing"
      THEN [raised |-> FALSE, df |-> EmptyFrame]
    ELSE IF store[name].kind = "none"
      THEN [raised |-> FALSE, df |-> EmptyFrame]
    ELSE LET kept == dropna(Frame(store[name].rows))
         IN  IF kept = <<>>
               THEN [raised |-> FALSE, df |-> EmptyFrame]
               ELSE [raised |-> FALSE,
                     df |-> [i \in 1..Len(kept) |->
                               [label |-> kept[i].label,
                                date |-> CleanDate(kept[i].row[1])]]]

\* save_csv writes every date as "%Y-%m-%d": no time of day
Saved(df) == Table([i \in 1..Len(df) |-> DataRow(df[i].date, FALSE)])

\* conn.update overwrites the worksheet; on a worksheet that does not exist
\* it either creates it or raises
save_csv(name, df) ==
    \/ store' = [store EXCEPT ![name] = Saved(df)]
    \/ store[name].kind = "missing" /\ store' = store

\* pd.concat([df, new_row], ignore_index=True)
ConcatAlone(df, d) == <<[label |-> 0, date |-> d]>>

Concat(df, d) ==
    [i \in 1..(Len(df) + 1) |->
        [label |-> i - 1, date |-> IF i <= Len(df) THEN df[i].date ELSE d]]

Labels(df) == {df[i].label : i \in 1..Len(df)}

\* df.drop(index=idx).reset_index(drop=True)
RECURSIVE Drop(_, _)
Drop(df, idx) ==
    IF df = <<>> THEN <<>>
    ELSE IF df[1].label = idx THEN Drop(Tail(df), idx)
         ELSE <<df[1]>> \o Drop(Tail(df), idx)

RECURSIVE Sorted(_)
Sorted(S) ==
    IF S = {} THEN <<>>
    ELSE LET m == CHOOSE x \in S : \A y \in S : x <= y
         IN  <<m>> \o Sorted(S \ {m})

DatesOf(df) == {df[i].date : i \in 1..Len(df)}

\* the set the loop over the worksheets builds
PracticeDatesFirstSheet == DatesOf(load_csv("ball_striking").df)

PracticeDates == UNION {DatesOf(load_csv(name).df) : name \in PRACTICE_SHEETS}

all_practice_dates == Sorted(PracticeDates)

practice_session_counts ==
    [name \in PRACTICE_SHEETS |-> Len(load_csv(name).df)]

RECURSIVE SumOver(_, _)
SumOver(f, S) ==
    IF S = {} THEN 0
    ELSE LET x == CHOOSE y \in S : TRUE
         IN  f[x] + SumOver(f, S \ {x})

\* app.py: total_sessions = sum(counts.values())
total_sessions == SumOver(practice_session_counts, PRACTICE_SHEETS)

\* the days a session is logged for: yesterday and today
SessionDays == (MaxDay - 1)..MaxDay

\* what a write took out of all_practice_dates()
Written(op) == Some([op |-> op, lost |-> PracticeDates \ PracticeDates'])

\* save_*_session: df = load_csv(name), the new row is added, save_csv
append_csv_row(name, d) ==
    /\ total_sessions < MaxRows
    /\ save_csv(name, Concat(load_csv(name).df, d))
    /\ last_write' = IF store' = store THEN last_write ELSE Written("append")
    /\ metrics' = None
    /\ UNCHANGED otherThanStore

\* the pages' delete buttons; drop raises KeyError when no row has the label
delete_csv_row(name, idx) ==
    /\ LET df == load_csv(name).df
       IN  IF 0 <= idx /\ idx < Len(df) /\ idx \in Labels(df)
             THEN save_csv(name, Drop(df, idx))
             ELSE store' = store
    /\ last_write' = IF store' = store THEN last_write ELSE Written("delete")
    /\ metrics' = None
    /\ UNCHANGED otherThanStore

\* app.py: the key metrics row of the dashboard
Metrics ==
    /\ metrics' =
         Some([raised |-> \E name \in PRACTICE_SHEETS : load_csv(name).raised,
               dates |-> all_practice_dates,
               counts |-> practice_session_counts,
               total_sessions |-> total_sessions,
               current |-> current_streak(all_practice_dates, today),
               longest |-> longest_streak(all_practice_dates)])
    /\ UNCHANGED <<store, last_write, otherThanStore>>

\* every way a worksheet can hold no session, side by side
BlankStore ==
    [name \in PRACTICE_SHEETS |->
        CASE name = "testing" -> Missing
          [] name = "short_game" -> Unread
          [] name = "wedge_ladder" -> Table(<<EmptyRow>>)
          [] OTHER -> Table(<<>>)]

\* yesterday's session as Sheets hands it back, below a row it left empty
ReadBack ==
    [BlankStore EXCEPT
        !["putting"] = Table(<<EmptyRow, DataRow(MaxDay - 1, TRUE)>>)]

InitStore ==
    /\ store \in {BlankStore, ReadBack}
    /\ last_write = None
    /\ metrics = None
    /\ dates = <<>>
    /\ today = MaxDay
    /\ prev = None
    /\ shown = None
    /\ IdleLookup
    /\ IdleTesting
    /\ IdlePutting
    /\ IdleGrade
    /\ IdleRoll
    /\ IdlePage
    /\ IdleCalls

NextStore ==
    \/ \E name \in PRACTICE_SHEETS, d \in SessionDays :
          append_csv_row(name, d)
    \/ \E name \in PRACTICE_SHEETS, idx \in 0..MaxRows :
          delete_csv_row(name, idx)
    \/ Metrics

SpecStore == InitStore /\ [][NextStore]_vars

\* append_csv_row on a worksheet whose read fails this once: conn.read
\* raises, load_csv returns pd.DataFrame() from its except branch, and the
\* new row is concatenated to that and saved
append_csv_row_read_fails(name, d) ==
    /\ total_sessions < MaxRows
    /\ store[name].kind = "table"
    /\ save_csv(name, Concat(EmptyFrame, d))
    /\ last_write' = IF store' = store THEN last_write ELSE Written("append")
    /\ metrics' = None
    /\ UNCHANGED otherThanStore

\* the store when a read of an existing worksheet can fail
NextStoreFaults ==
    \/ NextStore
    \/ \E name \in PRACTICE_SHEETS, d \in SessionDays :
          append_csv_row_read_fails(name, d)

SpecStoreFaults == InitStore /\ [][NextStoreFaults]_vars

\* ------------------------------------------------------------------------
\* pages/5_Wedge_Ladder.py: the drill. The script runs from the top at every
\* interaction; a button returns True only in the run its click started, and
\* only where the script reaches it. An action is one such run.
\* ------------------------------------------------------------------------
MODES == {"In Order", "Randomizer"}

\* the distances a user enters: 40, 45, ... (lines 87-93)
DistanceInputs == {40 + 5 * k : k \in 0..(MaxShots - 1)}

\* list(range(start, end + 1, 5))
Ladder(start, end) ==
    [i \in 1..((end - start) \div 5 + 1) |-> start + 5 * (i - 1)]

\* random.shuffle: any order of the same distances
Shuffles(seq) ==
    {p \in [1..Len(seq) -> {seq[i] : i \in 1..Len(seq)}] :
        \A i, j \in 1..Len(seq) : i # j => p[i] # p[j]}

\* lines 95-107: the Start Drill button is rendered
CanStartAlways(start_dist, end_dist) == TRUE

CanStart(start_dist, end_dist) == ~(start_dist >= end_dist)

\* what a shot's number input can hold: 0, the target it starts at, or a
\* distance 6 yards past it
ActualsFor(distances) ==
    {[i \in 1..Len(distances) |-> IF c[i] = 0 THEN 0
                                  ELSE distances[i] + 6 * (c[i] - 1)] :
        c \in [1..Len(distances) -> 0..2]}

\* what a run renders, and the button whose click started the run
Showing(view, clicked) ==
    Some([view |-> view, grade |-> None, clicked |-> Some(clicked)])

\* lines 151-153
AfterCancelStillActive(ss) == ss

AfterCancel(ss) == [ss EXCEPT !.wl_active = FALSE]

\* lines 80-118: Start Drill is pressed on the setup screen
StartDrill(mode, start_dist, end_dist) ==
    /\ ~session_state.wl_active
    /\ CanStart(start_dist, end_dist)
    /\ \E distances \in (IF mode = "Randomizer"
                           THEN Shuffles(Ladder(start_dist, end_dist))
                           ELSE {Ladder(start_dist, end_dist)}) :
          session_state' = [wl_active |-> TRUE, wl_distances |-> distances,
                            wl_mode |-> mode, wl_start |-> start_dist,
                            wl_end |-> end_dist]
    /\ screen' = Showing("form", "Start Drill")
    /\ UNCHANGED <<wl_rows, otherThanPage>>

\* lines 149-153: Cancel Drill is pressed on the form, whatever it holds
CancelDrill(entered) ==
    /\ session_state.wl_active
    /\ session_state' = AfterCancel(session_state)
    /\ screen' = Showing(IF session_state'.wl_active THEN "form" ELSE "setup",
                          "Cancel Drill")
    /\ UNCHANGED <<wl_rows, otherThanPage>>

\* lines 147-236: Submit Results is pressed on the form
SubmitResults(entered) ==
    /\ session_state.wl_active
    /\ Len(wl_rows) < MaxRows
    /\ IF \A i \in 1..Len(entered) : entered[i] = 0
         THEN /\ screen' = Showing("warning", "Submit Results")
              /\ wl_rows' = wl_rows
         ELSE LET result ==
                      calculate_grade(session_state.wl_distances, entered)
              IN  /\ screen' = Some([view |-> "results",
                                     grade |-> Some(result.grade),
                                     clicked |-> Some("Submit Results")])
                  /\ wl_rows' =
                       Append(wl_rows,
                              [total_shots |->
                                   Len(session_state.wl_distances)])
    /\ UNCHANGED <<session_state, otherThanPage>>

\* lines 238-240: Start New Drill is pressed under the results. The run it
\* starts has submitted = False, so the branch that holds the button (line
\* 155) is not entered: the form is rendered again and nothing else happens
StartNewDrill ==
    /\ screen[1].view = "results"
    /\ screen' = Showing(IF session_state.wl_active THEN "form" ELSE "setup",
                          "Start New Drill")
    /\ UNCHANGED <<session_state, wl_rows, otherThanPage>>

\* lines 66-75
InitPage ==
    /\ session_state = [wl_active |-> FALSE, wl_distances |-> <<>>,
                        wl_mode |-> "In Order", wl_start |-> 40,
                        wl_end |-> 120]
    /\ screen = Some([view |-> "setup", grade |-> None, clicked |-> None])
    /\ wl_rows = <<>>
    /\ IdleStreak
    /\ IdleLookup
    /\ IdleTesting
    /\ IdlePutting
    /\ IdleGrade
    /\ IdleRoll
    /\ IdleStore
    /\ IdleCalls

NextPage ==
    \/ \E mode \in MODES, start_dist \in DistanceInputs,
          end_dist \in DistanceInputs : StartDrill(mode, start_dist, end_dist)
    \/ \E entered \in ActualsFor(session_state.wl_distances) :
          CancelDrill(entered)
    \/ \E entered \in ActualsFor(session_state.wl_distances) :
          SubmitResults(entered)
    \/ StartNewDrill

SpecPage == InitPage /\ [][NextPage]_vars

\* ------------------------------------------------------------------------
\* utils/data_manager.py: two append_csv_row calls on one worksheet, each
\* from its own session. A call is two steps, the load of the worksheet
\* (line 68) and the overwrite of the worksheet (line 71); nothing orders
\* the steps of one call against the steps of the other.
\* ------------------------------------------------------------------------
CALLERS == {1, 2}

\* line 68: df = load_csv(name)
Load(c) ==
    /\ calls # <<>>
    /\ calls[c].pc = "load"
    /\ calls' = [calls EXCEPT ![c].df = load_csv(calls[c].name).df,
                              ![c].pc = "save"]
    /\ UNCHANGED <<store, otherThanCalls>>

\* lines 69-71: the new row is added to what was loaded, save_csv; the call
\* returns, or the update of a worksheet that does not exist raises
Save(c) ==
    /\ calls # <<>>
    /\ calls[c].pc = "save"
    /\ save_csv(calls[c].name, Concat(calls[c].df, calls[c].day))
    /\ calls' = [calls EXCEPT
                   ![c].pc = IF store[calls[c].name].kind = "missing"
                                /\ store' = store
                               THEN "raised" ELSE "done"]
    /\ UNCHANGED otherThanCalls

InitInterleaved ==
    /\ store \in {BlankStore, ReadBack}
    /\ \E name \in PRACTICE_SHEETS :
          calls \in [CALLERS -> [pc : {"load"}, name : {name},
                                 day : SessionDays, df : {EmptyFrame}]]
    /\ last_write = None
    /\ metrics = None
    /\ IdleStreak
    /\ IdleLookup
    /\ IdleTesting
    /\ IdlePutting
    /\ IdleGrade
    /\ IdleRoll
    /\ IdlePage

NextInterleaved ==
    \/ \E c \in CALLERS : Load(c)
    \/ \E c \in CALLERS : Save(c)

SpecInterleaved == InitInterleaved /\ [][NextInterleaved]_vars

\* ------------------------------------------------------------------------
\* Properties of the streak functions
\* ------------------------------------------------------------------------
Range(ds) == {ds[i] : i \in 1..Len(ds)}

IsAscending(ds) == \A i \in 1..(Len(ds) - 1) : ds[i] <= ds[i + 1]

IsAscDistinct(ds) == \A i \in 1..(Len(ds) - 1) : ds[i] < ds[i + 1]

IsDistinct(ds) == \A i, j \in 1..Len(ds) : i # j => ds[i] # ds[j]

Latest(ds) == CHOOSE d \in Range(ds) : \A e \in Range(ds) : e <= d

\* the days a, a-1, a-2, ... counted while they are in S
RECURSIVE WalkBack(_, _)
WalkBack(S, a) == IF a \in S THEN 1 + WalkBack(S, a - 1) ELSE 0

ClaimedAnchor(ds, t) == IF t >= Latest(ds) THEN t ELSE Latest(ds)

CodeAnchor(ds, t) == IF Latest(ds) < t THEN Latest(ds) ELSE t

Rendered == shown # None

\* C1 (as stated): on a non-empty ascending list of distinct dates the
\* current streak is counted from today when today is on or after the latest
\* logged date, and from the latest logged date otherwise.
C1_AnchorAsClaimed ==
    (Rendered /\ dates # <<>> /\ IsAscDistinct(dates))
        => shown[1].current
             = WalkBack(Range(dates), ClaimedAnchor(dates, shown[1].today))

\* C1 (amended): on a non-empty ascending list of distinct dates the current
\* streak is counted from the latest logged date when that date is strictly
\* before today, and from today otherwise.
C1_Anchor ==
    (Rendered /\ dates # <<>> /\ IsAscDistinct(dates))
        => shown[1].current
             = WalkBack(Range(dates), CodeAnchor(dates, shown[1].today))

\* both branches of the anchor give a streak longer than one day somewhere:
\* here the latest date is before today and still starts a two-day streak
C1_Witness ==
    /\ Rendered /\ IsAscDistinct(dates) /\ Len(dates) >= 2
    /\ Latest(dates) < shown[1].today
    /\ shown[1].current >= 2

\* the length of the maximal run of consecutive days that ends at L
RunEndingAt(S, L) ==
    CHOOSE k \in 1..Cardinality(S) :
        /\ \A j \in 0..(k - 1) : (L - j) \in S
        /\ (L - k) \notin S

\* C2: when the latest date L of a non-empty ascending list of distinct
\* dates is strictly before today, current_streak is the length of the
\* maximal run of consecutive days ending at L.
C2_RunEndingAtLatest ==
    (Rendered /\ dates # <<>> /\ IsAscDistinct(dates)
        /\ dates[Len(dates)] < shown[1].today)
        => shown[1].current = RunEndingAt(Range(dates), dates[Len(dates)])

\* {D, D+1, D+3} with today = D+4 shows a streak of 1
C2_Witness ==
    /\ Rendered /\ dates = <<0, 1, 3>> /\ shown[1].today = 4
    /\ shown[1].current = 1

IsRun(ds, i, j) == \A k \in i..(j - 1) : ds[k + 1] - ds[k] = 1

MaxRun(ds) ==
    CHOOSE n \in 1..Len(ds) :
        /\ \E i \in 1..Len(ds) : (i + n - 1 <= Len(ds)) /\ IsRun(ds, i, i + n - 1)
        /\ \A i, j \in 1..Len(ds) : (i <= j /\ IsRun(ds, i, j)) => j - i + 1 <= n

\* C3: on an ascending list of distinct dates longest_streak is the maximum
\* length of a run whose adjacent dates differ by exactly one day: 1 for a
\* single date, and between 1 and len(dates) for any non-empty list.
C3_LongestIsMaxRun ==
    (Rendered /\ dates # <<>> /\ IsAscDistinct(dates))
        => /\ shown[1].longest = MaxRun(dates)
           /\ shown[1].longest >= 1 /\ shown[1].longest <= Len(dates)
           /\ (Len(dates) = 1 => shown[1].longest = 1)

\* two runs, the first one the longer, and a gap between them
C3_Witness ==
    /\ Rendered /\ dates = <<0, 1, 3>> /\ shown[1].longest = 2

Orderings(ds) ==
    {p \in [1..Len(ds) -> Range(ds)] :
        \A d \in Range(ds) :
            Cardinality({i \in 1..Len(ds) : p[i] = d})
                = Cardinality({i \in 1..Len(ds) : ds[i] = d})}

\* C4: longest_streak returns the same value for every ordering of the same
\* collection of distinct dates.
C4_OrderIndependent ==
    (Rendered /\ IsDistinct(dates))
        => \A p \in Orderings(dates) : longest_streak(p) = shown[1].longest

\* the list with each date kept once, in order of first occurrence
RECURSIVE Dedup(_)
Dedup(ds) ==
    IF ds = <<>> THEN <<>>
    ELSE LET front == Dedup(SubSeq(ds, 1, Len(ds) - 1))
             d == ds[Len(ds)]
         IN  IF d \in Range(front) THEN front ELSE Append(front, d)

\* C5: on an ascending list with repeated dates both streaks equal the
\* streaks of the list with the repeats removed.
C5_DuplicatesCountOnce ==
    (Rendered /\ IsAscending(dates))
        => /\ shown[1].current = current_streak(Dedup(dates), shown[1].today)
           /\ shown[1].longest = longest_streak(Dedup(dates))

\* C6: both streaks are 0 for an empty date collection.
C6_EmptyIsZero ==
    (Rendered /\ dates = <<>>)
        => (shown[1].current = 0 /\ shown[1].longest = 0)

C6_Witness == Rendered /\ dates = <<>>

\* C7 (as stated): two calls of current_streak with identical dates return
\* the identical value, whatever else differs between the calls.
C7_PureInDates ==
    (prev # None /\ shown # None) => prev[1].current = shown[1].current

\* C7 (amended): two calls of current_streak with identical dates return the
\* identical value when they are made on the same day, or when the last
\* date of the list is not after the day of the earlier call; the value
\* depends on date.today() only through dates that lie in the future.
C7_PureInDatesAndToday ==
    (prev # None /\ shown # None
        /\ (prev[1].today = shown[1].today
            \/ dates = <<>>
            \/ dates[Len(dates)] <= prev[1].today))
        => prev[1].current = shown[1].current

\* two renders on different days of a list that holds no future date
C7_Witness ==
    /\ prev # None /\ shown # None
    /\ dates # <<>> /\ dates[Len(dates)] <= prev[1].today
    /\ prev[1].today < shown[1].today
    /\ shown[1].current >= 1

\* ------------------------------------------------------------------------
\* Properties of score_to_handicap
\* ------------------------------------------------------------------------
Called == hcap # None

CallTable == TableOf(hcap[1].shot)

Entries(table) == {table[i] : i \in 1..Len(table)}

HasExact(table, score) == \E e \in Entries(table) : e.score = score

UniqueScores(table) ==
    \A i, j \in 1..Len(table) : i # j => table[i].score # table[j].score

\* C8: when the shot type's table (with unique scores) holds an entry whose
\* score equals the raw score, the result is that entry's handicap, wherever
\* the entry sits in the table.
C8_ExactMatch ==
    (Called /\ UniqueScores(CallTable))
        => \A e \in Entries(CallTable) :
              e.score = hcap[1].score => hcap[1].result = Some(e.handicap)

\* an exact match on the last entry of a table whose first entry holds
\* another handicap
C8_Witness ==
    /\ Called /\ Len(CallTable) >= 2
    /\ CallTable[Len(CallTable)].score = hcap[1].score
    /\ CallTable[1].handicap # CallTable[Len(CallTable)].handicap
    /\ hcap[1].result = Some(CallTable[Len(CallTable)].handicap)

MinEntry(table) ==
    CHOOSE e \in Entries(table) : \A f \in Entries(table) : e.score <= f.score

MaxEntry(table) ==
    CHOOSE e \in Entries(table) : \A f \in Entries(table) : e.score >= f.score

InteriorGap(table, score) ==
    /\ table # <<>>
    /\ ~HasExact(table, score)
    /\ MinEntry(table).score < score
    /\ score < MaxEntry(table).score

TestingRendered == preview # None

\* the shot types of the row whose lookup was made and returned None
NotAvailable(row) ==
    {s \in SHOT_TYPES :
        row[s].k = "num" /\ score_to_handicap(s, row[s].v) = None}

HandicapIn(row, s) == score_to_handicap(s, row[s].v)[1]

RECURSIVE SumHandicaps(_, _)
SumHandicaps(row, S) ==
    IF S = {} THEN 0
    ELSE LET s == CHOOSE x \in S : TRUE
         IN  HandicapIn(row, s) + SumHandicaps(row, S \ {s})

\* C11: a shot type whose lookup returns None is in neither the sum nor the
\* divisor of the session's average handicap, in the preview and in the
\* history alike, and a session with no available handicap has no average.
C11_NoneIsNotZero ==
    TestingRendered =>
        LET row == latest[1]
            p == preview[1]
            e == entry[1]
        IN  /\ p.given \cap NotAvailable(row) = {}
            /\ p.valid_count = Cardinality(p.given)
            /\ p.total = SumHandicaps(row, p.given)
            /\ (p.given = {} <=> p.avg = None)
            /\ (p.avg # None => p.avg = Some(<<p.total, p.valid_count>>))
            /\ (e = None <=> \A s \in SHOT_TYPES :
                                ~(IsFilled(row[s]) /\ row[s].k = "num")
                                    \/ s \in NotAvailable(row))
            /\ (e # None =>
                  /\ e[1].given \cap NotAvailable(row) = {}
                  /\ e[1].given # {}
                  /\ e[1].avg_handicap
                       = <<SumHandicaps(row, e[1].given),
                           Cardinality(e[1].given)>>)

\* one shot type has a handicap and the other one's lookup returned None
C11_Witness ==
    /\ TestingRendered
    /\ NotAvailable(latest[1]) # {}
    /\ \E s \in NotAvailable(latest[1]) : latest[1][s].v > 0
    /\ preview[1].valid_count = 1
    /\ entry[1] # None /\ Cardinality(entry[1][1].given) = 1

\* ------------------------------------------------------------------------
\* Properties of the Swedish putting drill
\* ------------------------------------------------------------------------

\* the fraction f equals the whole number v
IsWhole(f, v) == f.den > 0 /\ f.num = v * f.den

\* the point (x, f) lies on the line through anchors i and i + 1
OnSegment(x, f, i) ==
    /\ f.den > 0
    /\ (f.num - SW_HCAPS[i] * f.den) * (SW_SCORES[i + 1] - SW_SCORES[i])
         = f.den * (x - SW_SCORES[i]) * (SW_HCAPS[i + 1] - SW_HCAPS[i])

\* C12: swedish_putting_handicap is the piecewise-linear interpolation
\* through the anchors (0.2,-2), (2.0,0), (6.3,5), (10.7,10): the anchor
\* handicap at each anchor score, -2 at or below 0.2, 10 at or above 10.7.
C12_PiecewiseLinear ==
    putting_hcp # None =>
        LET f == putting_hcp[1]
        IN  /\ f.den > 0
            /\ \A i \in 1..4 :
                  total_score = <<2, 20, 63, 107>>[i]
                      => IsWhole(f, <<0 - 2, 0, 5, 10>>[i])
            /\ (total_score <= 2 => IsWhole(f, 0 - 2))
            /\ (total_score >= 107 => IsWhole(f, 10))
            /\ \A i \in 1..3 :
                  (SW_SCORES[i] <= total_score /\ total_score <= SW_SCORES[i + 1])
                      => OnSegment(total_score, f, i)

\* a total strictly inside a segment: 4.0 gives 0 + 2.0 * 5 / 4.3
C12_Witness ==
    /\ putting_hcp # None /\ total_score = 40
    /\ putting_hcp[1].num * 43 = 100 * putting_hcp[1].den

Distance(i) == Abs(SWEDISH_BENCHMARKS[i][1] - total_score)

Graded == graded # None

EqualNonEmpty == Len(targets) = Len(actuals) /\ Len(targets) > 0

WithinCount(k) ==
    Cardinality({i \in 1..Len(targets) : Abs(targets[i] - actuals[i]) <= k})

CountsAndTotals ==
    \A k \in {5, 4, 3, 2} :
        /\ graded[1].stats[k].within = WithinCount(k)
        /\ graded[1].stats[k].total = Len(targets)

\* C14 (as stated): on equal-length non-empty inputs each tolerance records
\* within = the number of positions i with |targets[i] - actuals[i]| <=
\* tolerance, total = the number of pairs, and pct = within/total as a
\* percentage.
C14_StatsExact ==
    (Graded /\ EqualNonEmpty) =>
        /\ CountsAndTotals
        /\ \A k \in {5, 4, 3, 2} :
              graded[1].stats[k].pct * Len(targets) = 1000 * WithinCount(k)

\* C14 (amended): as stated, with pct = within/total as a percentage
\* rounded to one decimal.
C14_StatsRounded ==
    (Graded /\ EqualNonEmpty) =>
        /\ CountsAndTotals
        /\ \A k \in {5, 4, 3, 2} :
              2 * Abs(graded[1].stats[k].pct * Len(targets)
                        - 1000 * WithinCount(k)) <= Len(targets)

\* targets that differ by position, one shot within 2 and one within 5 only
C14_Witness ==
    /\ Graded /\ Len(targets) = 3 /\ Len(actuals) = 3
    /\ targets[1] # targets[2]
    /\ graded[1].stats[5].within = 2 /\ graded[1].stats[2].within = 1
    /\ graded[1].stats[5].pct = 667

\* the condition of each tier, on the recorded percentages
TierHolds(g) ==
    LET st == graded[1].stats
    IN  \/ g = 1 /\ st[5].pct >= 500
        \/ g = 2 /\ st[5].pct >= 700
        \/ g = 3 /\ st[4].pct >= 700
        \/ g = 4 /\ st[3].pct >= 700
        \/ g = 5 /\ st[2].pct >= 700

\* C15: the grade is an integer in 0..5, the highest tier whose own
\* condition holds (1: >=50% within 5, 2: >=70% within 5, 3: >=70% within
\* 4, 4: >=70% within 3, 5: >=70% within 2), and 0 when none holds.
C15_HighestTier ==
    (Graded /\ Len(targets) > 0) =>
        LET g == graded[1].grade
        IN  /\ g \in 0..5
            /\ (g > 0 => TierHolds(g))
            /\ \A h \in 1..5 : TierHolds(h) => h <= g

\* half of the shots within 5 yards and no more: grade 1
C15_Witness ==
    /\ Graded /\ EqualNonEmpty
    /\ graded[1].stats[5].pct = 500
    /\ graded[1].grade = 1

\* C16: with targets and actuals of different lengths calculate_grade
\* either fails or computes every threshold's total and percentage over
\* exactly the min(len(targets), len(actuals)) pairs it compared.
C16_TruncatesConsistently ==
    (Graded /\ Len(targets) # Len(actuals)) =>
        \A k \in DOMAIN graded[1].stats :
            LET m == Min2(Len(targets), Len(actuals))
                st == graded[1].stats[k]
            IN  /\ st.total = m
                /\ 2 * Abs(st.pct * m - 1000 * st.within) <= m

\* ------------------------------------------------------------------------
\* Properties of the moving average
\* ------------------------------------------------------------------------
Averaged == moving_avg # None

\* the positions of the last min(i, window) values ending at i (1-based)
Last(i) == {j \in 1..i : j > i - window}

Present(i) == {j \in Last(i) : series[j] # None}

RECURSIVE SumAt(_)
SumAt(S) ==
    IF S = {} THEN 0
    ELSE LET j == CHOOSE x \in S : TRUE
         IN  Val(series[j]) + SumAt(S \ {j})

\* C17 (as stated): the moving average has the length of its input, and
\* its value at every position is defined and is the mean of the last
\* min(i+1, window) input values ending there.
C17_MeanOfLastValues ==
    Averaged =>
        /\ Len(moving_avg[1]) = Len(series)
        /\ \A i \in 1..Len(series) :
              /\ moving_avg[1][i] # None
              /\ Present(i) = Last(i)
              /\ moving_avg[1][i][1].n = Cardinality(Last(i))
              /\ moving_avg[1][i][1].sum = SumAt(Last(i))

\* C17 (amended): the moving average has the length of its input; its
\* value at a position is the mean of the values that are not missing among
\* the last min(i+1, window) inputs ending there, and is undefined exactly
\* when all of them are missing; on a series without missing values it is
\* the mean of the last min(i+1, window) values, the first output equals the
\* first input and no position is undefined.
C17_MeanOfPresentValues ==
    Averaged =>
        /\ Len(moving_avg[1]) = Len(series)
        /\ \A i \in 1..Len(series) :
              /\ (moving_avg[1][i] = None <=> Present(i) = {})
              /\ (moving_avg[1][i] # None =>
                    /\ moving_avg[1][i][1].n = Cardinality(Present(i))
                    /\ moving_avg[1][i][1].sum = SumAt(Present(i)))
        /\ (\A j \in 1..Len(series) : series[j] # None) =>
              /\ \A i \in 1..Len(series) :
                    /\ moving_avg[1][i] # None
                    /\ moving_avg[1][i][1].n = Cardinality(Last(i))
              /\ (Len(series) > 0 =>
                    moving_avg[1][1] = Some([sum |-> series[1][1], n |-> 1]))

\* [1, 2, 3, 4] with window 2 gives [1, 3/2, 5/2, 7/2]
C17_Witness ==
    /\ Averaged /\ window = 2
    /\ series = <<Some(1), Some(2), Some(3), Some(4)>>
    /\ moving_avg[1] = <<Some([sum |-> 1, n |-> 1]), Some([sum |-> 3, n |-> 2]),
                         Some([sum |-> 5, n |-> 2]), Some([sum |-> 7, n |-> 2])>>

\* ------------------------------------------------------------------------
\* Properties of the store and of the dashboard's metrics
\* ------------------------------------------------------------------------
Measured == metrics # None

\* the rows of the worksheets that carry the day d
RowsWith(d) ==
    Cardinality({p \in PRACTICE_SHEETS \X (1..(MaxRows + 2)) :
                    /\ p[2] <= Len(store[p[1]].rows)
                    /\ store[p[1]].rows[p[2]] # EmptyRow
                    /\ store[p[1]].rows[p[2]][1].day = d})

\* a step of delete_csv_row that saved the worksheet
DeleteWrote ==
    /\ store' # store
    /\ last_write' # None
    /\ last_write'[1].op = "delete"

Blank(name) ==
    \/ store[name].kind \in {"missing", "none"}
    \/ \A i \in 1..Len(store[name].rows) : store[name].rows[i] = EmptyRow

\* C20: load_csv never raises; on a worksheet that is missing, unread, empty
\* or holds only empty rows it returns the empty table, and when all six are
\* so, the dates are empty and the counts and streaks are zero.
C20_EmptyNeverRaises ==
    /\ \A name \in PRACTICE_SHEETS :
          /\ load_csv(name).raised = FALSE
          /\ Blank(name) => load_csv(name).df = EmptyFrame
    /\ Measured =>
          /\ metrics[1].raised = FALSE
          /\ \A name \in PRACTICE_SHEETS :
                Blank(name) => metrics[1].counts[name] = 0
          /\ (\A name \in PRACTICE_SHEETS : Blank(name)) =>
                /\ metrics[1].dates = <<>>
                /\ metrics[1].total_sessions = 0
                /\ metrics[1].current = 0
                /\ metrics[1].longest = 0

\* a missing, an unread, an empty and an empty-rows worksheet, measured
C20_Witness ==
    /\ Measured
    /\ store = BlankStore
    /\ metrics[1].dates = <<>>
    /\ metrics[1].total_sessions = 0

\* ------------------------------------------------------------------------
\* The two streaks of one render
\* ------------------------------------------------------------------------

\* C27: on an ascending list of distinct dates, whatever today is, the
\* longest streak the dashboard shows is at least the current streak.
C27_LongestAtLeastCurrent ==
    (Rendered /\ IsAscDistinct(dates))
        => shown[1].longest >= shown[1].current

\* a current streak of two days counted from today, inside a longer run
\* that goes on after today
C27_Witness ==
    /\ Rendered /\ IsAscDistinct(dates)
    /\ shown[1].today \in Range(dates)
    /\ shown[1].current >= 2
    /\ shown[1].longest > shown[1].current
    /\ \E i \in 1..Len(dates) : dates[i] > shown[1].today

\* ------------------------------------------------------------------------
\* The two derivations of the Short Game Testing page
\* ------------------------------------------------------------------------

\* C30: for the same stored test row, the shot types given a handicap and
\* the average handicap of the latest-test preview are those of the row's
\* entry in the history trend, whatever scores the row stores.
C30_PreviewAgreesWithHistory ==
    TestingRendered =>
        LET p == preview[1]
            e == entry[1]
        IN  /\ (e = None => (p.given = {} /\ p.avg = None))
            /\ (e # None =>
                  /\ p.given = e[1].given
                  /\ p.avg = Some(e[1].avg_handicap))

\* ------------------------------------------------------------------------
\* The tiers against the exact pass fractions
\* ------------------------------------------------------------------------

\* the condition of each tier, on the exact fraction within / n
ExactTierHolds(g) ==
    LET n == Len(targets)
    IN  \/ g = 1 /\ 100 * WithinCount(5) >= 50 * n
        \/ g = 2 /\ 100 * WithinCount(5) >= 70 * n
        \/ g = 3 /\ 100 * WithinCount(4) >= 70 * n
        \/ g = 4 /\ 100 * WithinCount(3) >= 70 * n
        \/ g = 5 /\ 100 * WithinCount(2) >= 70 * n

\* C24: for n equal-length pairs, n > 0, the grade is at least 1 exactly
\* when 100 * within5 >= 50 * n, each tier 2..5 is met exactly when
\* 100 * within_k >= 70 * n for k = 5, 4, 3, 2, and the grade is the one the
\* exact fractions give: rounding the percentage never changes it.
C24_ExactFractions ==
    (Graded /\ EqualNonEmpty) =>
        LET g == graded[1].grade
        IN  /\ (g >= 1 <=> ExactTierHolds(1))
            /\ \A h \in 2..5 : TierHolds(h) <=> ExactTierHolds(h)
            /\ (g > 0 => ExactTierHolds(g))
            /\ \A h \in 1..5 : ExactTierHolds(h) => h <= g

\* ------------------------------------------------------------------------
\* calculate_grade is monotone in accuracy
\* ------------------------------------------------------------------------

\* the actuals with shot i replaced by a
Replaced(i, a) == [actuals EXCEPT ![i] = a]

\* a is at least as close to the target of shot i as the shot was
NoFurther(i, a) == Abs(targets[i] - a) <= Abs(targets[i] - actuals[i])

TiersHeld == Cardinality({h \in 1..5 : TierHolds(h)})

\* C29: on equal-length inputs, replacing one actual value by one that is
\* no further from its target lowers neither the grade nor any threshold's
\* within count; within5 >= within4 >= within3 >= within2; and the grade is
\* the number of tier conditions that hold.
C29_Monotone ==
    (Graded /\ EqualNonEmpty) =>
        LET st == graded[1].stats
        IN  /\ \A i \in 1..Len(actuals) : \A a \in ActualValues :
                  NoFurther(i, a) =>
                      LET better == calculate_grade(targets, Replaced(i, a))
                      IN  /\ better.grade >= graded[1].grade
                          /\ \A k \in THRESHOLDS :
                                better.stats[k].within >= st[k].within
            /\ st[5].within >= st[4].within
            /\ st[4].within >= st[3].within
            /\ st[3].within >= st[2].within
            /\ graded[1].grade = TiersHeld

\* one closer shot lifts the grade, on within counts that differ by
\* threshold
C29_Witness ==
    /\ Graded /\ EqualNonEmpty
    /\ graded[1].stats[5].within > graded[1].stats[2].within
    /\ graded[1].grade >= 1
    /\ \E i \in 1..Len(actuals) : \E a \in ActualValues :
          /\ NoFurther(i, a)
          /\ calculate_grade(targets, Replaced(i, a)).grade > graded[1].grade

\* ------------------------------------------------------------------------
\* The frame of append_csv_row and delete_csv_row
\* ------------------------------------------------------------------------

\* the days of the sessions of a worksheet, in the order of its rows
RowDays(name) ==
    LET kept == dropna(Frame(store[name].rows))
    IN  [i \in 1..Len(kept) |-> kept[i].row[1].day]

\* a step of append_csv_row that saved the worksheet
AppendWrote ==
    /\ store' # store
    /\ last_write' # None
    /\ last_write'[1].op = "append"

\* C21: after append_csv_row the worksheet holds the sessions it held, in
\* the same order, followed by the one new row, and no other worksheet has
\* changed, whatever the read inside append_csv_row returned.
C21_AppendKeepsRows ==
    [][AppendWrote =>
         \E name \in PRACTICE_SHEETS :
             /\ \A other \in PRACTICE_SHEETS \ {name} :
                   store'[other] = store[other]
             /\ \E d \in SessionDays :
                   RowDays(name)' = Append(RowDays(name), d)]_vars

\* the sequence without its element at position sel
Removed(seq, sel) ==
    [i \in 1..(Len(seq) - 1) |-> IF i < sel THEN seq[i] ELSE seq[i + 1]]

\* the index the page passes for the row at position sel of the table it
\* loaded: the row's label (1_Practice_Log.py lines 31 and 46)
PageIndex(name, sel) == load_csv(name).df[sel].label

\* C22: delete_csv_row called with the index the page took from the loaded
\* table for the selected row removes that session and leaves the others of
\* the worksheet in order, and the other worksheets as they were; called
\* with an index that is negative or not below the number of loaded rows it
\* does not write the worksheet.
C22_DeletesSelectedRow ==
    [][\A name \in PRACTICE_SHEETS :
          /\ \A sel \in 1..Len(load_csv(name).df) :
                delete_csv_row(name, PageIndex(name, sel)) =>
                    /\ RowDays(name)' = Removed(RowDays(name), sel)
                    /\ \A other \in PRACTICE_SHEETS \ {name} :
                          store'[other] = store[other]
          /\ \A idx \in 0..MaxRows :
                (idx >= Len(load_csv(name).df) /\ delete_csv_row(name, idx))
                    => store' = store]_vars


\* ------------------------------------------------------------------------
\* Properties of the wedge-ladder page
\* ------------------------------------------------------------------------
\* the step is a run started by a click on Cancel Drill in an active drill
Cancelled ==
    /\ session_state.wl_active
    /\ screen'[1].clicked = Some("Cancel Drill")

\* C23: Cancel Drill, pressed while the drill is active and whatever the
\* form holds, leaves wl_active False and saves no wedge_ladder row: the
\* saved rows and the worksheets are what they were.
C23_CancelSavesNothing ==
    [][Cancelled
          => /\ session_state'.wl_active = FALSE
             /\ wl_rows' = wl_rows
             /\ store' = store]_vars

\* a drill was started and cancelled before any row was saved
C23_Witness ==
    /\ ~session_state.wl_active
    /\ session_state.wl_distances # <<>>
    /\ screen = Showing("setup", "Cancel Drill")
    /\ wl_rows = <<>>

\* C25: pressing Start New Drill under the results sets wl_active to False
\* and the next render shows the setup screen.
C25_StartNewDrillReturnsToIdle ==
    [][StartNewDrill
          => /\ session_state'.wl_active = FALSE
             /\ screen'[1].view = "setup"]_vars

IsPermutation(p, seq) ==
    /\ Len(p) = Len(seq)
    /\ \A i \in 1..Len(seq) :
          Cardinality({j \in 1..Len(p) : p[j] = seq[i]}) = 1

\* C26: while wl_active is True, wl_start < wl_end and wl_distances is a
\* non-empty permutation of range(wl_start, wl_end + 1, 5), that ascending
\* sequence itself when wl_mode is "In Order"; every saved row was graded
\* on at least one shot.
C26_ActiveDrillWellFormed ==
    /\ session_state.wl_active
          => /\ session_state.wl_start < session_state.wl_end
             /\ session_state.wl_distances # <<>>
             /\ IsPermutation(session_state.wl_distances,
                              Ladder(session_state.wl_start,
                                     session_state.wl_end))
             /\ session_state.wl_mode = "In Order"
                   => session_state.wl_distances =
                         Ladder(session_state.wl_start, session_state.wl_end)
    /\ \A i \in 1..Len(wl_rows) : wl_rows[i].total_shots >= 1

\* a shuffled drill, not in ascending order, has been graded and saved
C26_Witness ==
    /\ session_state.wl_active
    /\ session_state.wl_mode = "Randomizer"
    /\ session_state.wl_distances #
          Ladder(session_state.wl_start, session_state.wl_end)
    /\ screen[1].view = "results"
    /\ wl_rows # <<>>


\* ------------------------------------------------------------------------
\* Properties of interleaved appends
\* ------------------------------------------------------------------------
BothReturned == calls # <<>> /\ \A c \in CALLERS : calls[c].pc = "done"

\* the sessions the worksheet held when the first of the calls loaded it
HeldBefore ==
    LET first == CHOOSE c \in CALLERS :
                    \A o \in CALLERS : Len(calls[c].df) <= Len(calls[o].df)
    IN  Len(calls[first].df)

\* C28: once both append_csv_row calls on a worksheet have returned, the
\* worksheet holds the sessions it held before and both appended rows,
\* whatever the order of the calls' loads and saves.
C28_BothRowsPresent ==
    BothReturned
        => LET name == calls[1].name
           IN  /\ Len(RowDays(name)) = HeldBefore + Cardinality(CALLERS)
               /\ \A c \in CALLERS :
                     \E i \in 1..Len(RowDays(name)) :
                        RowDays(name)[i] = calls[c].day

====
